---- MODULE Spec2Model ----
(***************************************************************************)
(* Model of sas_payroll_app.py: a Streamlit script that keeps a list of    *)
(* dated shift events ("acts") in the session state and, on every run of   *)
(* the script, re-derives the monthly hour totals, the accrual and          *)
(* deduction lines, the net amount and the payment-month projection.       *)
(*                                                                         *)
(* Representation.                                                         *)
(*  - A Python string that the code slices, splits or parses (dates,       *)
(*    year-month keys, the quick-entry text) is a sequence of one-char     *)
(*    strings, so that date[:7], split('-'), int() and the f-string        *)
(*    formats are computed as the code computes them.                      *)
(*  - Hours are counted in half hours, rates in cents per hour, the        *)
(*    localized factor in tenths, contribution rates in 1/10000, tax       *)
(*    rates in 1/1000 and the global tax percentage in half percents.      *)
(*  - A monetary amount is an exact decimal: a record [e, f] standing for  *)
(*    e + f/MoneyUnit euros with 0 <= f < MoneyUnit.  The code computes    *)
(*    the same expressions in binary floating point; the model keeps the   *)
(*    exact decimal value of every expression (the value the code's        *)
(*    result rounds to when it is shown with two decimals).                *)
(*                                                                         *)
(* Execution.  Every interaction runs the script from the top: sidebar     *)
(* (global tax rate, data_export, upload), tab 1 (forms, listing, delete   *)
(* buttons), aggregation, financials, tab 2 (month editor), tab 3          *)
(* (payments and their widgets).  The add, delete and save handlers end    *)
(* with st.rerun(), so the state they leave is that of a full run on the   *)
(* new session data; the other handlers let the run they are in go on.     *)
(* An uncaught exception ends the run where it is raised.  An action is    *)
(* an interaction together with the run (or runs) it causes.  An uploaded  *)
(* file is handled by one run: the uploader is taken to be empty again in  *)
(* the runs that follow.                                                   *)
(***************************************************************************)
EXTENDS Integers, Sequences, FiniteSets, TLC

VARIABLES
    acts,                \* st.session_state['acts']
    month_configs,       \* st.session_state['month_configs']
    normal_overrides,    \* st.session_state['normal_overrides']
    global_irpf,         \* st.session_state['global_irpf'] (half percents)
    n_ids,               \* number of uuid4 identifiers minted so far
    run_status,          \* how the last run of the script ended
    financials_by_month, \* the last run's financials_by_month
    payments,            \* the last run's payments
    last_op,             \* what the last interaction was, with its report
    data_export,         \* the last run's data_export (what the download button serves)
    download,            \* the backup file the user has saved
    widgets,             \* the keyed widgets of the payment tab as last rendered
    monthly_overrides,   \* the list objects held by MONTHLY_OVERRIDES
    returned             \* configurations handed to a caller of get_month_config

vars == <<acts, month_configs, normal_overrides, global_irpf, n_ids, run_status,
          financials_by_month, payments, last_op, data_export, download, widgets,
          monthly_overrides, returned>>

session == <<acts, month_configs, normal_overrides, global_irpf>>

-----------------------------------------------------------------------------
(* Text: characters, int(), str() and the zero-padded formats.             *)

Digits == <<"0", "1", "2", "3", "4", "5", "6", "7", "8", "9">>

DigitSet == {Digits[i] : i \in 1..10}

DigitVal(c) == (CHOOSE i \in 1..10 : Digits[i] = c) - 1

\* The code point order of the characters the model uses ('-' < '0' < '9').
CharOrd(c) == IF c \in DigitSet THEN 48 + DigitVal(c)
              ELSE IF c = " " THEN 32
              ELSE IF c = "," THEN 44
              ELSE IF c = "-" THEN 45
              ELSE IF c = ";" THEN 59
              ELSE 120

\* str.isdigit(): non-empty and every character a digit.
IsDigitStr(s) == Len(s) > 0 /\ \A i \in 1..Len(s) : s[i] \in DigitSet

\* int(s) of a digit string.
RECURSIVE ParseInt(_)
ParseInt(s) == IF Len(s) = 0 THEN 0
               ELSE 10 * ParseInt(SubSeq(s, 1, Len(s) - 1)) + DigitVal(s[Len(s)])

\* str(n) of a natural number.
RECURSIVE IntToStr(_)
IntToStr(n) == IF n < 10 THEN <<Digits[n + 1]>>
               ELSE IntToStr(n \div 10) \o <<Digits[(n % 10) + 1]>>

\* f"{n:0{w}d}".
RECURSIVE PadLeft(_, _)
PadLeft(s, w) == IF Len(s) >= w THEN s ELSE PadLeft(<<"0">> \o s, w)

Pad2(n) == PadLeft(IntToStr(n), 2)

Pad4(n) == PadLeft(IntToStr(n), 4)

\* s.split(sep): the pieces between the separators, empty pieces kept.
RECURSIVE SplitOn(_, _)
SplitOn(s, sep) ==
    IF \A i \in 1..Len(s) : s[i] # sep THEN <<s>>
    ELSE LET k == CHOOSE i \in 1..Len(s) :
                      s[i] = sep /\ \A j \in 1..(i - 1) : s[j] # sep
         IN  <<SubSeq(s, 1, k - 1)>> \o SplitOn(SubSeq(s, k + 1, Len(s)), sep)

\* s.replace(a, b) for single characters.
ReplaceChar(s, a, b) == [i \in 1..Len(s) |-> IF s[i] = a THEN b ELSE s[i]]

\* s.strip() for the blank.
RECURSIVE Strip(_)
Strip(s) == IF Len(s) > 0 /\ s[1] = " " THEN Strip(Tail(s))
            ELSE IF Len(s) > 0 /\ s[Len(s)] = " " THEN Strip(SubSeq(s, 1, Len(s) - 1))
            ELSE s

\* a < b for Python strings (lexicographic by code point).
RECURSIVE StrLess(_, _)
StrLess(a, b) ==
    IF Len(b) = 0 THEN FALSE
    ELSE IF Len(a) = 0 THEN TRUE
    ELSE IF a[1] # b[1] THEN CharOrd(a[1]) < CharOrd(b[1])
    ELSE StrLess(Tail(a), Tail(b))

\* sorted(keys) of a set of strings.
RECURSIVE SortedStrs(_)
SortedStrs(S) ==
    IF S = {} THEN <<>>
    ELSE LET m == CHOOSE x \in S : \A y \in S \ {x} : StrLess(x, y)
         IN  <<m>> \o SortedStrs(S \ {m})

Range(s) == {s[i] : i \in DOMAIN s}

\* [x for x in s if Keep(x)]
RECURSIVE SelectSeqIdx(_, _)
SelectSeqIdx(s, K) ==
    IF Len(s) = 0 THEN <<>>
    ELSE SelectSeqIdx(SubSeq(s, 1, Len(s) - 1), K)
         \o (IF Len(s) \in K THEN <<s[Len(s)]>> ELSE <<>>)

-----------------------------------------------------------------------------
(* Calendar dates: datetime.date(y, m, d), weekday(), strftime.            *)

IsLeap(y) == (y % 4 = 0) /\ ((y % 100 # 0) \/ (y % 400 = 0))

DaysInMonth(y, m) ==
    IF m = 2 THEN (IF IsLeap(y) THEN 29 ELSE 28)
    ELSE IF m \in {4, 6, 9, 11} THEN 30
    ELSE 31

\* datetime.date(y, m, d) raises ValueError unless this holds.
ValidDate(y, m, d) == m \in 1..12 /\ d >= 1 /\ d <= DaysInMonth(y, m)

RECURSIVE DaysBeforeMonth(_, _)
DaysBeforeMonth(y, m) ==
    IF m = 1 THEN 0 ELSE DaysBeforeMonth(y, m - 1) + DaysInMonth(y, m - 1)

ToOrdinal(y, m, d) ==
    LET p == y - 1
    IN  p * 365 + (p \div 4) - (p \div 100) + (p \div 400) + DaysBeforeMonth(y, m) + d

\* date.weekday(): 0 = Monday .. 6 = Sunday.
Weekday(y, m, d) == (ToOrdinal(y, m, d) + 6) % 7

\* d.strftime("%Y-%m-%d")
FmtDate(y, m, d) == Pad4(y) \o <<"-">> \o Pad2(m) \o <<"-">> \o Pad2(d)

\* d.strftime("%m-%d")
FmtMonthDay(y, m, d) == Pad2(m) \o <<"-">> \o Pad2(d)

-----------------------------------------------------------------------------
(* Exact decimal amounts.                                                  *)

\* Units per euro: the common denominator of every product the code forms.
MoneyUnit == 2 * 1000 * 1000

Norm(e, f) == [e |-> e + (f \div MoneyUnit), f |-> f % MoneyUnit]

MZero == [e |-> 0, f |-> 0]

MAdd(a, b) == Norm(a.e + b.e, a.f + b.f)

MSub(a, b) == Norm(a.e - b.e, a.f - b.f)

\* a * k for a small integer k.
MScale(a, k) == Norm(a.e * k, a.f * k)

\* n/den euros as an amount, den a divisor of MoneyUnit.
MFrac(n, den) == Norm(n \div den, (n % den) * (MoneyUnit \div den))

\* An amount given in cents.
MCents(c) == MFrac(c, 100)

\* a * p/1000: an amount times a tax rate in thousandths.  Exact for the
\* amounts that are taxed, which are multiples of 1/2000 euro.
MPermille(a, p) == MAdd(MFrac(a.e * p, 1000), Norm(0, (a.f \div 1000) * p))

MPositive(a) == a.e > 0 \/ (a.e = 0 /\ a.f > 0)

-----------------------------------------------------------------------------
(* 1. Constants and configuration.                                         *)

\* SPECIAL_MD
SPECIAL_MD == { <<"0", "1", "-", "0", "1">>, <<"0", "1", "-", "0", "6">>,
                <<"0", "2", "-", "2", "8">>, <<"1", "0", "-", "0", "7">>,
                <<"1", "2", "-", "2", "5">> }

\* TYPICAL_NORMAL_BY_MONTH, in cents, keyed by the two-digit month.
TYPICAL_NORMAL_BY_MONTH ==
    [mm \in {Pad2(i) : i \in 1..12} |->
        <<149685, 153405, 155471, 157586, 149111, 137795,
          144433, 145142, 152021, 155766, 156130, 154501>>[ParseInt(mm)]]

\* ACT_MODELS, in half hours.
ACT_MODELS ==
    [ TARDE     |-> [ca |-> 10, labor |-> 0,  fest |-> 0,  loca |-> 0],
      G_LJ      |-> [ca |-> 10, labor |-> 24, fest |-> 0,  loca |-> 0],
      G_VIERNES |-> [ca |-> 10, labor |-> 8,  fest |-> 16, loca |-> 0],
      G_SABADO  |-> [ca |-> 0,  labor |-> 0,  fest |-> 48, loca |-> 0],
      G_DOMINGO |-> [ca |-> 0,  labor |-> 16, fest |-> 32, loca |-> 0],
      REFUERZO  |-> [ca |-> 15, labor |-> 0,  fest |-> 0,  loca |-> 20],
      G_24_MIX  |-> [ca |-> 10, labor |-> 16, fest |-> 32, loca |-> 0] ]

ActTypes == DOMAIN ACT_MODELS

\* DEFAULT_CONFIG_TEMPLATE: irpf in thousandths, rates and amounts in cents,
\* locaFactor in tenths, ccRate, fpRate and the tranche rates in 1/10000.
DEFAULT_CONFIG_TEMPLATE ==
    [ irpf     |-> 350,
      rates    |-> [labor |-> 2707, fest |-> 2947, ca |-> 4711, locaFactor |-> 5],
      prodFija |-> 73342,
      bases    |-> [ ccBaseWorker |-> 215130,
                     ccRate       |-> 483,
                     fpRate       |-> 10,
                     solidarity   |-> << [base |-> 49095,  rate |-> 77],
                                         [base |-> 156121, rate |-> 83] >> ] ]

Ym(y, m) == Pad4(y) \o <<"-">> \o Pad2(m)

\* MONTHLY_OVERRIDES as the module's literal writes it.  The value of a
\* month's "solidarity" key is a list object; OverrideLists0 gives the
\* initial content of those objects, one per month, and the table itself
\* holds the objects (monthly_overrides is their current content).
OverrideLists0 ==
    (Ym(2025, 3) :> << [base |-> 49095, rate |-> 15], [base |-> 61430,  rate |-> 17] >>) @@
    (Ym(2025, 4) :> << [base |-> 49095, rate |-> 15], [base |-> 116964, rate |-> 17] >>) @@
    (Ym(2025, 6) :> << [base |-> 49095, rate |-> 15], [base |-> 135480, rate |-> 17] >>)

\* The scalar keys of MONTHLY_OVERRIDES[ym]['bases'].
OverrideScalars ==
    (Ym(2025, 3) :> << >>) @@
    (Ym(2025, 4) :> << >>) @@
    (Ym(2025, 6) :> [ccBaseWorker |-> 209815])

MONTHLY_OVERRIDES == DOMAIN OverrideLists0

-----------------------------------------------------------------------------
(* 2. Helper functions.                                                    *)

\* dict.get(k, default)
Get(d, k, default) == IF k \in DOMAIN d THEN d[k] ELSE default

\* global_irpf / 100.0: a percentage in half percents as a rate in thousandths.
PercentToRate(hp) == hp * 5

\* The solidarity list a configuration refers to: a list object of its own
\* (a copy) or the list object held by MONTHLY_OVERRIDES[ym].
OwnList(val) == [obj |-> "own", val |-> val]

SharedList(ym) == [obj |-> "override", ym |-> ym]

\* json.loads(json.dumps(x)) of a list: a new list object with equal content.
DeepCopyList(val) == OwnList(val)

\* The content of the list object a reference names, in heap ov.
ListContent(ref, ov) == IF ref.obj = "own" THEN ref.val ELSE ov[ref.ym]

\* cfg = json.loads(json.dumps(DEFAULT_CONFIG_TEMPLATE)): a deep copy.
TemplateCopy ==
    [ irpf     |-> DEFAULT_CONFIG_TEMPLATE.irpf,
      rates    |-> DEFAULT_CONFIG_TEMPLATE.rates,
      prodFija |-> DEFAULT_CONFIG_TEMPLATE.prodFija,
      bases    |-> [ DEFAULT_CONFIG_TEMPLATE.bases EXCEPT !.solidarity = DeepCopyList(@) ] ]

\* 1. The global user IRPF setting (g: st.session_state['global_irpf']).
ApplyGlobalIrpf(cfg, g) == [cfg EXCEPT !.irpf = PercentToRate(g)]

\* 2. The hardcoded monthly override: ccBaseWorker is copied, the solidarity
\* list is assigned as the object it is.
ApplyHardcoded(cfg, ym) ==
    IF ym \in MONTHLY_OVERRIDES
    THEN [cfg EXCEPT
            !.bases.ccBaseWorker = IF "ccBaseWorker" \in DOMAIN OverrideScalars[ym]
                                   THEN OverrideScalars[ym].ccBaseWorker ELSE @,
            !.bases.solidarity   = SharedList(ym)]
    ELSE cfg

\* 3. The user's override of the month (mc: st.session_state['month_configs']).
ApplyUser(cfg, ym, mc) ==
    IF ym \in DOMAIN mc
    THEN [cfg EXCEPT
            !.irpf     = IF "irpf" \in DOMAIN mc[ym] THEN mc[ym]["irpf"] ELSE @,
            !.prodFija = IF "prodFija" \in DOMAIN mc[ym] THEN mc[ym]["prodFija"] ELSE @]
    ELSE cfg

\* A resolver that applies the global tax rate last.
GetMonthConfigGlobalLast(ym, g, mc) ==
    ApplyGlobalIrpf(ApplyUser(ApplyHardcoded(TemplateCopy, ym), ym, mc), g)

\* get_month_config(ym)
GetMonthConfig(ym, g, mc) ==
    ApplyUser(ApplyHardcoded(ApplyGlobalIrpf(TemplateCopy, g), ym), ym, mc)

\* classify_date(d)
ClassifyDate(y, m, d) ==
    LET wd == Weekday(y, m, d)
    IN  IF wd = 6 THEN "G_DOMINGO"
        ELSE IF wd = 5 THEN "G_SABADO"
        ELSE IF wd = 4 THEN "G_VIERNES"
        ELSE "G_LJ"

\* Whether y, m = map(int, ym_str.split('-')) succeeds (two digit strings).
CanNextMonth(ym) ==
    LET parts == SplitOn(ym, "-")
    IN  Len(parts) = 2 /\ IsDigitStr(parts[1]) /\ IsDigitStr(parts[2])

\* next_month_str(ym_str)
NextMonthStr(ym) ==
    LET parts == SplitOn(ym, "-")
        y  == ParseInt(parts[1])
        m  == ParseInt(parts[2]) + 1
        y2 == IF m > 12 THEN y + 1 ELSE y
        m2 == IF m > 12 THEN 1 ELSE m
    IN  IntToStr(y2) \o <<"-">> \o Pad2(m2)

\* s[:n]
Prefix(s, n) == SubSeq(s, 1, IF Len(s) < n THEN Len(s) ELSE n)

-----------------------------------------------------------------------------
(* Aggregation: the loop that fills aggregated_by_month.                   *)

ZeroHours == [labor |-> 0, fest |-> 0, ca |-> 0, loca |-> 0]

\* ACT_MODELS[act['type']] for a registered type.
ActModel(type) == ACT_MODELS[type]

\* A loop body that doubles the hours of a special event.
AggregateStepDoubling(agg, act) ==
    LET ym   == Prefix(act.date, 7)
        old  == IF ym \in DOMAIN agg THEN agg[ym]
                ELSE [acts |-> <<>>, hours |-> ZeroHours]
        m    == ActModel(act.type)
        k    == IF act.special THEN 2 ELSE 1
        new  == [ acts  |-> Append(old.acts, act),
                  hours |-> [ labor |-> old.hours.labor + k * m.labor,
                              fest  |-> old.hours.fest  + k * m.fest,
                              ca    |-> old.hours.ca    + k * m.ca,
                              loca  |-> old.hours.loca  + k * m.loca ] ]
    IN  [k2 \in DOMAIN agg \cup {ym} |-> IF k2 = ym THEN new ELSE agg[k2]]

\* One pass of the loop body for act, on the dictionary agg.
AggregateStep(agg, act) ==
    LET ym   == Prefix(act.date, 7)
        old  == IF ym \in DOMAIN agg THEN agg[ym]
                ELSE [acts |-> <<>>, hours |-> ZeroHours]
        m    == ActModel(act.type)
        new  == [ acts  |-> Append(old.acts, act),
                  hours |-> [ labor |-> old.hours.labor + m.labor,
                              fest  |-> old.hours.fest  + m.fest,
                              ca    |-> old.hours.ca    + m.ca,
                              loca  |-> old.hours.loca  + m.loca ] ]
    IN  [k \in DOMAIN agg \cup {ym} |-> IF k = ym THEN new ELSE agg[k]]

\* Whether ACT_MODELS[act['type']] raises KeyError.
RaisesKeyError(act) == act.type \notin ActTypes

\* A loop that takes an event of an unregistered type as one of zero hours
\* and zero pay: its month gets an entry, nothing is added to it.
RECURSIVE AggregateLoopZeroHours(_, _)
AggregateLoopZeroHours(as, agg) ==
    IF Len(as) = 0 THEN [status |-> "ok", agg |-> agg]
    ELSE IF RaisesKeyError(Head(as))
    THEN AggregateLoopZeroHours(Tail(as),
            [k \in DOMAIN agg \cup {Prefix(Head(as).date, 7)} |->
                IF k \in DOMAIN agg THEN agg[k] ELSE [acts |-> <<>>, hours |-> ZeroHours]])
    ELSE AggregateLoopZeroHours(Tail(as), AggregateStep(agg, Head(as)))

RECURSIVE AggregateLoop(_, _)
AggregateLoop(as, agg) ==
    IF Len(as) = 0 THEN [status |-> "ok", agg |-> agg]
    ELSE IF RaisesKeyError(Head(as)) THEN [status |-> "KeyError", agg |-> agg]
    ELSE AggregateLoop(Tail(as), AggregateStep(agg, Head(as)))

EmptyDict == << >>

\* An aggregation that starts from an entry for October 2025 instead of from
\* the empty dictionary.
AggregateSeeded(as) ==
    AggregateLoop(as, (Ym(2025, 10) :> [acts |-> <<>>, hours |-> ZeroHours]))

Aggregate(as) == AggregateLoop(as, EmptyDict)

-----------------------------------------------------------------------------
(* Financials: the loop that fills financials_by_month.                    *)

\* A factor that ignores the special flag.
FactorAlwaysOne(a) == 1

\* 2.0 if a["special"] else 1.0
SpecialFactor(a) == IF a.special THEN 2 ELSE 1

\* (m["labor"] * rates.labor + m["loca"] * loca_rate_val) * factor
Line024(a, cfg) ==
    LET m == ActModel(a.type)
        loca_rate_val == cfg.rates.labor * cfg.rates.locaFactor
    IN  MScale(MAdd(MFrac(m.labor * cfg.rates.labor, 200),
                    MFrac(m.loca * loca_rate_val, 2000)),
               SpecialFactor(a))

\* (m["fest"] * rates.fest) * factor
Line025(a, cfg) ==
    MScale(MFrac(ActModel(a.type).fest * cfg.rates.fest, 200), SpecialFactor(a))

\* A continuity-of-care line that is doubled on special dates, like the
\* other two lines.
Line180Doubled(a, cfg) ==
    MScale(MFrac(ActModel(a.type).ca * cfg.rates.ca, 200), IF a.special THEN 2 ELSE 1)

\* m["ca"] * rates.ca
Line180(a, cfg) == MFrac(ActModel(a.type).ca * cfg.rates.ca, 200)

RECURSIVE DevLoop(_, _, _)
DevLoop(as, cfg, dev) ==
    IF Len(as) = 0 THEN dev
    ELSE DevLoop(Tail(as), cfg,
                 [ d024 |-> MAdd(dev.d024, Line024(Head(as), cfg)),
                   d025 |-> MAdd(dev.d025, Line025(Head(as), cfg)),
                   d180 |-> MAdd(dev.d180, Line180(Head(as), cfg)) ])

RECURSIVE SolidarityLoop(_, _)
SolidarityLoop(tramos, cuotSol) ==
    IF Len(tramos) = 0 THEN cuotSol
    ELSE SolidarityLoop(Tail(tramos),
                        MAdd(cuotSol, MFrac(Head(tramos).base * Head(tramos).rate,
                                            1000 * 1000)))

\* An accrual total that leaves the fixed production out.
DevTotalWithoutPF(d024, d025, d180, devPF) == MAdd(MAdd(d024, d025), d180)

\* devTotal = dev024 + dev025 + dev180 + devPF
DevTotal(d024, d025, d180, devPF) == MAdd(MAdd(MAdd(d024, d025), d180), devPF)

\* total_descuentos = irpf_amount + cuotCC + cuotFP + cuotSol
TotalDescuentos(irpf_amount, cuotCC, cuotFP, cuotSol) ==
    MAdd(MAdd(MAdd(irpf_amount, cuotCC), cuotFP), cuotSol)

\* The accrual lines of a month: "dev".
AccrualLines(dev, devPF) ==
    [ d024 |-> dev.d024, d025 |-> dev.d025, d180 |-> dev.d180, PF |-> devPF,
      Total |-> DevTotal(dev.d024, dev.d025, dev.d180, devPF) ]

Accruals(month_acts, cfg) ==
    AccrualLines(DevLoop(month_acts, cfg, [d024 |-> MZero, d025 |-> MZero, d180 |-> MZero]),
                 MCents(cfg.prodFija))

\* The deduction lines of a month: "desc".
DeductionLines(irpf_amount, cuotCC, cuotFP, cuotSol) ==
    [ IRPF |-> irpf_amount, CC |-> cuotCC, FP |-> cuotFP, Sol |-> cuotSol,
      Total |-> TotalDescuentos(irpf_amount, cuotCC, cuotFP, cuotSol) ]

Deductions(devTotal, cfg, ov) ==
    DeductionLines(MPermille(devTotal, cfg.irpf),
                   MFrac(cfg.bases.ccBaseWorker * cfg.bases.ccRate, 1000 * 1000),
                   MFrac(cfg.bases.ccBaseWorker * cfg.bases.fpRate, 1000 * 1000),
                   SolidarityLoop(ListContent(cfg.bases.solidarity, ov), MZero))

\* financials_by_month[ym] = {...}
MonthRecord(hours, dev, desc, cfg) ==
    [ hours |-> hours, dev |-> dev, desc |-> desc,
      neto  |-> MSub(dev.Total, desc.Total),
      cfg   |-> cfg ]

WithDeductions(hours, dev, cfg, ov) ==
    MonthRecord(hours, dev, Deductions(dev.Total, cfg, ov), cfg)

WithConfig(data, cfg, ov) == WithDeductions(data.hours, Accruals(data.acts, cfg), cfg, ov)

\* The body of the loop over sorted_months, for one month.
MonthFinancials(ym, data, g, mc, ov) == WithConfig(data, GetMonthConfig(ym, g, mc), ov)

Financials(agg, g, mc, ov) ==
    [ym \in DOMAIN agg |-> MonthFinancials(ym, agg[ym], g, mc, ov)]

-----------------------------------------------------------------------------
(* Payments: the loop over sorted_months that fills payments.              *)

\* A step that overwrites the entry of the payment month instead of adding to it.
PaymentsStepOverwriting(pay, sm, fin) ==
    [k \in DOMAIN pay \cup {NextMonthStr(sm)} |->
        IF k = NextMonthStr(sm) THEN [comp |-> fin[sm].neto, from |-> <<sm>>] ELSE pay[k]]

PaymentsStep(pay, sm, fin) ==
    LET pm  == NextMonthStr(sm)
        old == IF pm \in DOMAIN pay THEN pay[pm] ELSE [comp |-> MZero, from |-> <<>>]
        new == [comp |-> MAdd(old.comp, fin[sm].neto), from |-> Append(old.from, sm)]
    IN  [k \in DOMAIN pay \cup {pm} |-> IF k = pm THEN new ELSE pay[k]]

RECURSIVE PaymentsLoop(_, _, _)
PaymentsLoop(months, fin, pay) ==
    IF Len(months) = 0 THEN pay
    ELSE PaymentsLoop(Tail(months), fin, PaymentsStep(pay, Head(months), fin))

Payments(fin) == PaymentsLoop(SortedStrs(DOMAIN fin), fin, EmptyDict)

-----------------------------------------------------------------------------
(* Tab 3: the widgets shown for every payment month.                       *)
(*                                                                         *)
(* A widget is identified by its parameters (its key and its value=        *)
(* argument among them): rendered with the parameters of the previous run  *)
(* it returns the value the user left in it, with other parameters it is a *)
(* new widget and returns its value= argument.                             *)

\* TYPICAL_NORMAL_BY_MONTH.get(mm, 1500.00), mm = pm.split('-')[1]
TypicalVal(pm) == Get(TYPICAL_NORMAL_BY_MONTH, SplitOn(pm, "-")[2], 150000)

\* st.checkbox(..., value=cp, key=f"chk_{pm}")
CheckboxValue(w, pm, cp) ==
    IF pm \in DOMAIN w /\ w[pm].chk_param = cp THEN w[pm].chk_value ELSE cp

\* st.number_input(..., value=ip, key=f"inp_{pm}")
NumberInputValue(w, pm, ip) ==
    IF pm \in DOMAIN w /\ w[pm].inp_shown /\ w[pm].inp_param = ip
    THEN w[pm].inp_value ELSE ip

\* The body of the loop over payment_months for pm: the widgets as rendered
\* and what becomes of normal_overrides[pm] (0 stands for no entry kept).
PaymentRow(pm, no, w) ==
    LET current_override == Get(no, pm, 0)
        cp         == current_override > 0
        use_manual == CheckboxValue(w, pm, cp)
        ip         == IF current_override > 0 THEN current_override ELSE TypicalVal(pm)
        normal_val == IF use_manual THEN NumberInputValue(w, pm, ip) ELSE TypicalVal(pm)
    IN  [ widget |-> [ chk_param |-> cp, chk_value |-> use_manual,
                       inp_shown |-> use_manual,
                       inp_param |-> IF use_manual THEN ip ELSE 0,
                       inp_value |-> IF use_manual THEN normal_val ELSE 0 ],
          keep   |-> use_manual /\ (normal_val # current_override \/ pm \in DOMAIN no),
          value  |-> IF use_manual /\ normal_val # current_override
                     THEN normal_val ELSE current_override,
          normal |-> normal_val ]

\* normal_overrides after the loop over the payment months of pay.
Tab3Overrides(pay, no, w) ==
    LET kept == {pm \in DOMAIN no : pm \notin DOMAIN pay}
                \cup {pm \in DOMAIN pay : PaymentRow(pm, no, w).keep}
    IN  [pm \in kept |-> IF pm \in DOMAIN pay THEN PaymentRow(pm, no, w).value ELSE no[pm]]

Tab3Widgets(pay, no, w) == [pm \in DOMAIN pay |-> PaymentRow(pm, no, w).widget]

-----------------------------------------------------------------------------
(* One run of the script below the interaction handlers: aggregation,      *)
(* financials, payments and the payment tab.  An uncaught exception ends   *)
(* the run where it is raised; the session state keeps what was written.   *)

\* Tab 3, reached with the payments of the run.
AfterPayments(fin, pay, no, w) ==
    [ status |-> "ok", fin |-> fin, pay |-> pay,
      no |-> Tab3Overrides(pay, no, w), w |-> Tab3Widgets(pay, no, w) ]

\* The payments loop: next_month_str raises ValueError on a key it cannot parse.
AfterFinancials(fin, no, w) ==
    IF \E sm \in DOMAIN fin : ~CanNextMonth(sm)
    THEN [status |-> "ValueError", fin |-> fin, pay |-> EmptyDict, no |-> no, w |-> w]
    ELSE AfterPayments(fin, Payments(fin), no, w)

\* The financials loop, reached when the aggregation loop raised nothing.
AfterAggregation(a, mc, no, g, w, ov) ==
    IF a.status # "ok"
    THEN [status |-> a.status, fin |-> EmptyDict, pay |-> EmptyDict, no |-> no, w |-> w]
    ELSE AfterFinancials(Financials(a.agg, g, mc, ov), no, w)

RunScript(as, mc, no, g, w, ov) == AfterAggregation(Aggregate(as), mc, no, g, w, ov)

\* data_export as the sidebar builds it.
DataExport(as, mc, no, g) ==
    [acts |-> as, month_configs |-> mc, normal_overrides |-> no, global_irpf |-> g]

-----------------------------------------------------------------------------
(* JSON: json.dumps of the session data and json.load of a backup file.    *)

JString(v) == [j |-> "string", v |-> v]

JNumber(v) == [j |-> "number", v |-> v]

JBool(b) == IF b THEN [j |-> "true"] ELSE [j |-> "false"]

JArray(s) == [j |-> "array", v |-> s]

JObject(f) == [j |-> "object", v |-> f]

ActToJson(a) ==
    JObject([id |-> JString(a.id), date |-> JString(a.date),
             type |-> JString(a.type), special |-> JBool(a.special)])

NumberMapToJson(d) == JObject([k \in DOMAIN d |-> JNumber(d[k])])

\* json.dumps(data_export, indent=2, default=str)
JsonDumps(d) ==
    JObject([ acts             |-> JArray([i \in DOMAIN d.acts |-> ActToJson(d.acts[i])]),
              month_configs    |-> JObject([ym \in DOMAIN d.month_configs |->
                                               NumberMapToJson(d.month_configs[ym])]),
              normal_overrides |-> NumberMapToJson(d.normal_overrides),
              global_irpf      |-> JNumber(d.global_irpf) ])

\* json.load: the Python value of a JSON value.
RECURSIVE JsonToPy(_)
JsonToPy(x) ==
    IF x.j = "true" THEN TRUE
    ELSE IF x.j = "false" THEN FALSE
    ELSE IF x.j \in {"string", "number"} THEN x.v
    ELSE [k \in DOMAIN x.v |-> JsonToPy(x.v[k])]

\* The four data.get(key, default) of the upload handler.
LoadedSession(file) ==
    LET data == JsonToPy(file)
    IN  [ acts             |-> Get(data, "acts", <<>>),
          month_configs    |-> Get(data, "month_configs", EmptyDict),
          normal_overrides |-> Get(data, "normal_overrides", EmptyDict),
          global_irpf      |-> Get(data, "global_irpf", 70) ]

-----------------------------------------------------------------------------
(* Bounds and the inputs the interactions draw from.                       *)

\* How many events the user creates (uuid4 identifiers minted) in a session.
MaxNewActs == 2

\* How many of the listed events (latest first) the user picks from to delete.
MaxDeleteChoices == 1

\* How many configurations a caller of get_month_config holds at a time.
MaxReturned == 2

\* Dates picked in the manual form: two special days, of October and of
\* December.
ManualDates == { <<2025, 10, 7>>, <<2025, 12, 25>> }

ManualTypes == {"REFUERZO", "G_24_MIX"}

\* The month picked in the quick-entry form (a 30-day and a 31-day month).
QuickMonths == { <<2025, 6>>, <<2025, 12>> }

\* Texts typed in the quick-entry form: "2, 31", "0;x" and "3,2147483648,4".
QuickTexts == { <<"2", ",", " ", "3", "1">>,
                <<"0", ";", "x">>,
                <<"3", ",", "2", "1", "4", "7", "4", "8", "3", "6", "4", "8", ",", "4">> }

\* Values typed in the default tax-rate input (20 %, 35 %), in half percents.
GlobalIrpfInputs == {40, 70}

\* Values typed in the month editor: 15 % and 500.00 euros.
MonthIrpfInputs == {30}

MonthPfInputs == {50000}

\* Values typed in the normal-payroll input of a payment month: 1600.00.
NormalInputs == {160000}

\* Year-month keys the configuration resolver is asked for.
CallerMonths == { Ym(2025, 6), Ym(2025, 10) }

\* Tranche rates a caller writes into a configuration it was handed.
CallerRates == {15, 99}

\* Backup files written elsewhere.  "unknown_type": a registered shift and one
\* of a type this registry does not have, no override maps.  "odd_dates": two
\* January dates whose year-month prefixes "2025-01" and "02025-1" differ, and
\* a December date.
ForeignBackups ==
    [ unknown_type |->
        JObject([ acts |-> JArray(<<
                    ActToJson([id |-> 101, date |-> FmtDate(2025, 11, 3),
                               type |-> "G_LJ", special |-> FALSE]),
                    ActToJson([id |-> 102, date |-> FmtDate(2025, 11, 4),
                               type |-> "NOCHE", special |-> FALSE]) >>),
                  global_irpf |-> JNumber(40) ]),
      odd_dates |->
        JObject([ acts |-> JArray(<<
                    ActToJson([id |-> 103, date |-> FmtDate(2025, 1, 5),
                               type |-> "G_DOMINGO", special |-> FALSE]),
                    ActToJson([id |-> 104,
                               date |-> <<"0", "2", "0", "2", "5", "-", "1", "-", "0", "6">>,
                               type |-> "TARDE", special |-> TRUE]),
                    ActToJson([id |-> 105, date |-> FmtDate(2025, 12, 25),
                               type |-> "G_LJ", special |-> TRUE]) >>),
                  month_configs    |-> JObject(EmptyDict),
                  normal_overrides |-> JObject(EmptyDict),
                  global_irpf      |-> JNumber(70) ]) ]

-----------------------------------------------------------------------------
(* 3. State management: the session state after the first run.             *)

\* str(uuid.uuid4()): the k-th identifier minted; all distinct.
Uuid4(k) == k

InitialActs ==
    << [id |-> Uuid4(1), date |-> FmtDate(2025, 10, 3),  type |-> "G_VIERNES", special |-> FALSE],
       [id |-> Uuid4(2), date |-> FmtDate(2025, 10, 7),  type |-> "G_24_MIX",  special |-> TRUE],
       [id |-> Uuid4(3), date |-> FmtDate(2025, 10, 15), type |-> "G_LJ",      special |-> FALSE],
       [id |-> Uuid4(4), date |-> FmtDate(2025, 10, 20), type |-> "G_LJ",      special |-> FALSE],
       [id |-> Uuid4(5), date |-> FmtDate(2025, 10, 27), type |-> "G_LJ",      special |-> FALSE],
       [id |-> Uuid4(6), date |-> FmtDate(2025, 10, 30), type |-> "TARDE",     special |-> FALSE] >>

\* The identifier the next uuid4() call returns.
NextUuid(n) == Uuid4(Len(InitialActs) + n + 1)

\* What a run leaves behind, given the session state the handlers left, the
\* data_export the run built and the interaction it served.
Finish(as, mc, no, g, w, de, op) ==
    \E R \in {RunScript(as, mc, no, g, w, monthly_overrides)} :
        /\ acts' = as
        /\ month_configs' = mc
        /\ global_irpf' = g
        /\ normal_overrides' = R.no
        /\ run_status' = R.status
        /\ financials_by_month' = R.fin
        /\ payments' = R.pay
        /\ widgets' = R.w
        /\ data_export' = de
        /\ last_op' = op

Init ==
    \E R \in {RunScript(InitialActs, EmptyDict, EmptyDict, 70, EmptyDict, OverrideLists0)} :
        /\ acts = InitialActs
        /\ month_configs = EmptyDict
        /\ global_irpf = 70
        /\ normal_overrides = R.no
        /\ n_ids = 0
        /\ run_status = R.status
        /\ financials_by_month = R.fin
        /\ payments = R.pay
        /\ widgets = R.w
        /\ data_export = DataExport(InitialActs, EmptyDict, EmptyDict, 70)
        /\ download = << >>
        /\ last_op = [op |-> "start"]
        /\ monthly_overrides = OverrideLists0
        /\ returned = << >>

-----------------------------------------------------------------------------
(* 4. Sidebar.                                                             *)

\* The default tax-rate input: a new value is stored and the run goes on.
SetGlobalIrpf(new_irpf) ==
    /\ new_irpf # global_irpf
    /\ Finish(acts, month_configs, normal_overrides, new_irpf, widgets,
              DataExport(acts, month_configs, normal_overrides, new_irpf),
              [op |-> "other"])
    /\ UNCHANGED <<n_ids, download, monthly_overrides, returned>>

\* The download button: the user gets the file the last run prepared from
\* its data_export (kept beside the file as "exported"), and the click runs
\* the script again.
Download ==
    /\ download' = << [file |-> JsonDumps(data_export), exported |-> data_export] >>
    /\ Finish(acts, month_configs, normal_overrides, global_irpf, widgets,
              DataExport(acts, month_configs, normal_overrides, global_irpf),
              [op |-> "other"])
    /\ UNCHANGED <<n_ids, monthly_overrides, returned>>

\* The file uploader: data_export is built from the session state as it is,
\* then the file replaces the four session entries and the run goes on.
LoadBackup(file, which) ==
    LET s == LoadedSession(file)
    IN  /\ Finish(s.acts, s.month_configs, s.normal_overrides, s.global_irpf, widgets,
                  DataExport(acts, month_configs, normal_overrides, global_irpf),
                  [op |-> "load", which |-> which])
        /\ UNCHANGED <<n_ids, download, monthly_overrides, returned>>

-----------------------------------------------------------------------------
(* 5. Main UI, tab 1: the forms and the delete buttons.  Each ends with    *)
(* st.rerun(): the script runs again from the top on the new state.        *)

IsSpecial(y, m, d) == FmtMonthDay(y, m, d) \in SPECIAL_MD

\* The form "add_manual".
AddManual(y, m, d, d_type) ==
    LET new_act == [ id |-> NextUuid(n_ids), date |-> FmtDate(y, m, d),
                     type |-> d_type, special |-> IsSpecial(y, m, d) ]
        as == Append(acts, new_act)
    IN  /\ n_ids < MaxNewActs
        /\ n_ids' = n_ids + 1
        /\ Finish(as, month_configs, normal_overrides, global_irpf, widgets,
                  DataExport(as, month_configs, normal_overrides, global_irpf),
                  [op |-> "other"])
        /\ UNCHANGED <<download, monthly_overrides, returned>>

\* days_list: the pieces of q_days that are digit strings, stripped.
DaysList(q_days) ==
    LET pieces   == SplitOn(ReplaceChar(q_days, ";", ","), ",")
        stripped == [i \in DOMAIN pieces |-> Strip(pieces[i])]
    IN  SelectSeq(stripped, IsDigitStr)

\* s without its leading zeros.
RECURSIVE StripZeros(_)
StripZeros(s) == IF Len(s) > 1 /\ s[1] = "0" THEN StripZeros(Tail(s)) ELSE s

\* The largest value of a C int, as text.
IntMaxText == <<"2", "1", "4", "7", "4", "8", "3", "6", "4", "7">>

\* Whether int(s) fits the C int that datetime.date takes its arguments as;
\* when it does not, datetime.date raises OverflowError.
FitsCInt(s) ==
    \/ Len(StripZeros(s)) < Len(IntMaxText)
    \/ Len(StripZeros(s)) = Len(IntMaxText) /\ ~StrLess(IntMaxText, StripZeros(s))

\* The act the loop appends for day d.
QuickAct(y, m, d, n) ==
    [ id |-> NextUuid(n), date |-> FmtDate(y, m, d),
      type |-> ClassifyDate(y, m, d), special |-> IsSpecial(y, m, d) ]

\* The loop over days_list: st is [acts, count, n, status] (n: identifiers
\* minted).  ValueError is caught and the day passed over; OverflowError is
\* not caught and ends the loop with what was appended so far.
RECURSIVE QuickLoop(_, _, _, _)
QuickLoop(days, y, m, st) ==
    IF Len(days) = 0 THEN st
    ELSE IF ~FitsCInt(Head(days)) THEN [st EXCEPT !.status = "OverflowError"]
    ELSE IF ValidDate(y, m, ParseInt(Head(days)))
    THEN QuickLoop(Tail(days), y, m,
                   [ acts   |-> Append(st.acts, QuickAct(y, m, ParseInt(Head(days)), st.n)),
                     count  |-> st.count + 1,
                     n      |-> st.n + 1,
                     status |-> st.status ])
    ELSE QuickLoop(Tail(days), y, m, st)

\* The handler of "add_auto" on the acts list as and n identifiers minted.
QuickHandler(as, n, y, m, q_days) ==
    QuickLoop(DaysList(q_days), y, m, [acts |-> as, count |-> 0, n |-> n, status |-> "ok"])

\* The form "add_auto".  When the loop ends normally the count is reported
\* and the script runs again; an uncaught exception ends the run in the form,
\* after the sidebar built data_export and before anything else was shown.
QuickEntry(y, m, q_days) ==
    \E st \in {QuickHandler(acts, n_ids, y, m, q_days)} :
        /\ Len(q_days) > 0
        /\ st.n <= MaxNewActs
        /\ n_ids' = st.n
        /\ IF st.status = "ok"
           THEN Finish(st.acts, month_configs, normal_overrides, global_irpf, widgets,
                       DataExport(st.acts, month_configs, normal_overrides, global_irpf),
                       [op |-> "add_auto", y |-> y, m |-> m, q_days |-> q_days,
                        reported |-> TRUE, count |-> st.count])
           ELSE /\ acts' = st.acts
                /\ run_status' = st.status
                /\ financials_by_month' = EmptyDict
                /\ payments' = EmptyDict
                /\ data_export' = DataExport(acts, month_configs, normal_overrides, global_irpf)
                /\ last_op' = [op |-> "add_auto", y |-> y, m |-> m, q_days |-> q_days,
                               reported |-> FALSE, count |-> st.count]
                /\ UNCHANGED <<month_configs, normal_overrides, global_irpf, widgets>>
        /\ UNCHANGED <<download, monthly_overrides, returned>>

\* Where act a goes in the listing s, which is sorted latest date first: after
\* every act whose date is not earlier.
RECURSIVE InsertByDate(_, _)
InsertByDate(s, a) ==
    IF Len(s) = 0 THEN <<a>>
    ELSE IF StrLess(Head(s).date, a.date) THEN <<a>> \o s
    ELSE <<Head(s)>> \o InsertByDate(Tail(s), a)

\* sorted(acts, key=lambda x: x['date'], reverse=True): latest date first,
\* acts of one date in their order in the list (the sort is stable).
RECURSIVE SortedActs(_)
SortedActs(as) ==
    IF Len(as) = 0 THEN <<>>
    ELSE InsertByDate(SortedActs(SubSeq(as, 1, Len(as) - 1)), as[Len(as)])

FirstIds(sorted_acts, k) ==
    {sorted_acts[i].id : i \in {j \in DOMAIN sorted_acts : j <= k}}

\* df["ID"].tolist(): the options of the delete selectbox.  The model's user
\* picks among the first MaxDeleteChoices of them.
DeleteOptions(as) == FirstIds(SortedActs(as), MaxDeleteChoices)

\* [x for x in acts if x['id'] != to_del]
WithoutId(as, to_del) == SelectSeqIdx(as, {i \in DOMAIN as : as[i].id # to_del})

\* The button "Borrar Seleccionado".
DeleteSelected(to_del) ==
    LET as == WithoutId(acts, to_del)
    IN  /\ run_status # "OverflowError"
        /\ Len(acts) > 0
        /\ \E i \in DOMAIN acts : acts[i].id = to_del
        /\ Finish(as, month_configs, normal_overrides, global_irpf, widgets,
                  DataExport(as, month_configs, normal_overrides, global_irpf),
                  [op |-> "other"])
        /\ UNCHANGED <<n_ids, download, monthly_overrides, returned>>

\* The button "Borrar TODO".
DeleteAll ==
    /\ run_status # "OverflowError"
    /\ Len(acts) > 0
    /\ Finish(<<>>, month_configs, normal_overrides, global_irpf, widgets,
              DataExport(<<>>, month_configs, normal_overrides, global_irpf),
              [op |-> "other"])
    /\ UNCHANGED <<n_ids, download, monthly_overrides, returned>>

-----------------------------------------------------------------------------
(* Tab 2: the month editor.  Shown when the run got past the financials.   *)

\* month_configs after "Guardar cambios mes".
SavedMonthConfigs(mc, sel_month, new_m_irpf, new_m_pf) ==
    LET old == IF sel_month \in DOMAIN mc THEN mc[sel_month] ELSE EmptyDict
        new == [k \in DOMAIN old \cup {"irpf", "prodFija"} |->
                  IF k = "irpf" THEN PercentToRate(new_m_irpf)
                  ELSE IF k = "prodFija" THEN new_m_pf
                  ELSE old[k]]
    IN  [k \in DOMAIN mc \cup {sel_month} |-> IF k = sel_month THEN new ELSE mc[k]]

SaveMonth(sel_month, new_m_irpf, new_m_pf) ==
    LET mc == SavedMonthConfigs(month_configs, sel_month, new_m_irpf, new_m_pf)
    IN  /\ run_status \in {"ok", "ValueError"}
        /\ sel_month \in DOMAIN financials_by_month
        /\ Finish(acts, mc, normal_overrides, global_irpf, widgets,
                  DataExport(acts, mc, normal_overrides, global_irpf),
                  [op |-> "other"])
        /\ UNCHANGED <<n_ids, download, monthly_overrides, returned>>

-----------------------------------------------------------------------------
(* Tab 3: the user ticks the checkbox of a payment month or types a value. *)

ToggleManual(pm) ==
    /\ run_status = "ok"
    /\ pm \in DOMAIN widgets
    /\ Finish(acts, month_configs, normal_overrides, global_irpf,
              [widgets EXCEPT ![pm].chk_value = ~@],
              DataExport(acts, month_configs, normal_overrides, global_irpf),
              [op |-> "other"])
    /\ UNCHANGED <<n_ids, download, monthly_overrides, returned>>

EditNormal(pm, v) ==
    /\ run_status = "ok"
    /\ pm \in DOMAIN widgets
    /\ widgets[pm].inp_shown
    /\ widgets[pm].inp_value # v
    /\ Finish(acts, month_configs, normal_overrides, global_irpf,
              [widgets EXCEPT ![pm].inp_value = v],
              DataExport(acts, month_configs, normal_overrides, global_irpf),
              [op |-> "other"])
    /\ UNCHANGED <<n_ids, download, monthly_overrides, returned>>

-----------------------------------------------------------------------------
(* A caller of get_month_config that keeps the dictionaries it was handed   *)
(* and writes into their solidarity lists.                                  *)

\* returned.append(get_month_config(ym))
CallGetMonthConfig(ym) ==
    /\ Len(returned) < MaxReturned
    /\ returned' = Append(returned, [ym |-> ym, cfg |-> GetMonthConfig(ym, global_irpf, month_configs)])
    /\ UNCHANGED <<session, n_ids, run_status, financials_by_month, payments,
                   last_op, data_export, download, widgets, monthly_overrides>>

\* returned[i]['bases']['solidarity'][k]['rate'] = rate: the write lands in the
\* list object the configuration refers to.
CallerModify(i, k, rate) ==
    LET ref == returned[i].cfg.bases.solidarity
    IN  /\ i \in DOMAIN returned
        /\ k \in DOMAIN ListContent(ref, monthly_overrides)
        /\ ListContent(ref, monthly_overrides)[k].rate # rate
        /\ IF ref.obj = "own"
           THEN /\ returned' = [returned EXCEPT ![i].cfg.bases.solidarity.val[k].rate = rate]
                /\ UNCHANGED monthly_overrides
           ELSE /\ monthly_overrides' = [monthly_overrides EXCEPT ![ref.ym][k].rate = rate]
                /\ UNCHANGED returned
        /\ UNCHANGED <<session, n_ids, run_status, financials_by_month, payments,
                       last_op, data_export, download, widgets>>

\* del returned[0]: the caller lets go of the oldest dictionary it holds.
CallerDrop ==
    /\ Len(returned) > 0
    /\ returned' = Tail(returned)
    /\ UNCHANGED <<session, n_ids, run_status, financials_by_month, payments,
                   last_op, data_export, download, widgets, monthly_overrides>>

-----------------------------------------------------------------------------
(* The session: what a user does in tabs 1 and 2 and with the default tax  *)
(* rate.                                                                   *)

Next ==
    \/ \E d \in ManualDates, t \in ManualTypes : AddManual(d[1], d[2], d[3], t)
    \/ \E ym \in QuickMonths, q \in QuickTexts : QuickEntry(ym[1], ym[2], q)
    \/ \E to_del \in DeleteOptions(acts) : DeleteSelected(to_del)
    \/ DeleteAll
    \/ \E v \in GlobalIrpfInputs : SetGlobalIrpf(v)
    \/ \E sm \in DOMAIN financials_by_month, i \in MonthIrpfInputs, pf \in MonthPfInputs :
          SaveMonth(sm, i, pf)

Spec == Init /\ [][Next]_vars

\* The session of a user who works with the payment tab, downloads a backup
\* and loads it again.
NextBackup ==
    \/ Download
    \/ Len(download) > 0 /\ LoadBackup(download[1].file, "own")
    \/ \E pm \in DOMAIN widgets : ToggleManual(pm)
    \/ \E pm \in DOMAIN widgets, v \in NormalInputs : EditNormal(pm, v)
    \/ \E v \in GlobalIrpfInputs : SetGlobalIrpf(v)
    \/ \E sm \in DOMAIN financials_by_month, i \in MonthIrpfInputs, pf \in MonthPfInputs :
          SaveMonth(sm, i, pf)
    \/ DeleteAll

SpecBackup == Init /\ [][NextBackup]_vars

\* The session of a user who loads backup files written elsewhere.
NextForeign ==
    \/ \E b \in DOMAIN ForeignBackups : LoadBackup(ForeignBackups[b], b)
    \/ \E to_del \in DeleteOptions(acts) : DeleteSelected(to_del)
    \/ \E pm \in DOMAIN widgets : ToggleManual(pm)
    \/ \E v \in GlobalIrpfInputs : SetGlobalIrpf(v)
    \/ \E sm \in DOMAIN financials_by_month, i \in MonthIrpfInputs, pf \in MonthPfInputs :
          SaveMonth(sm, i, pf)

SpecForeign == Init /\ [][NextForeign]_vars

\* The session of a user who adds and deletes events and loads backup files.
NextSession ==
    \/ \E d \in ManualDates, t \in ManualTypes : AddManual(d[1], d[2], d[3], t)
    \/ \E ym \in QuickMonths, q \in QuickTexts : QuickEntry(ym[1], ym[2], q)
    \/ \E to_del \in DeleteOptions(acts) : DeleteSelected(to_del)
    \/ DeleteAll
    \/ \E b \in DOMAIN ForeignBackups : LoadBackup(ForeignBackups[b], b)

SpecSession == Init /\ [][NextSession]_vars

\* A program that calls get_month_config and writes into what it returns.
NextCaller ==
    \/ \E ym \in CallerMonths : CallGetMonthConfig(ym)
    \/ \E i \in 1..MaxReturned, k \in 1..2, r \in CallerRates : CallerModify(i, k, r)
    \/ CallerDrop
    \/ \E v \in GlobalIrpfInputs : SetGlobalIrpf(v)

SpecCaller == Init /\ [][NextCaller]_vars


-----------------------------------------------------------------------------
(* Properties.                                                             *)

\* The events of as whose date has the year-month prefix ym, in list order.
MonthActs(as, ym) == SelectSeqIdx(as, {i \in DOMAIN as : Prefix(as[i].date, 7) = ym})

\* as with the special flag of the events at the positions in F inverted.
FlipSpecial(as, F) ==
    [i \in DOMAIN as |-> IF i \in F THEN [as[i] EXCEPT !.special = ~@] ELSE as[i]]

\* The flag changes tried: none, each single event, every event.
FlipSets(as) == {{}} \cup {{i} : i \in DOMAIN as} \cup {DOMAIN as}

RECURSIVE SumSeq(_)
SumSeq(s) == IF Len(s) = 0 THEN 0 ELSE s[1] + SumSeq(Tail(s))

RECURSIVE SumSet(_, _)
SumSet(S, f) ==
    IF S = {} THEN 0
    ELSE f[CHOOSE x \in S : TRUE] + SumSet(S \ {CHOOSE x \in S : TRUE}, f)

\* An amount of e euros and c cents.
Euros(e, c) == [e |-> e, f |-> c * (MoneyUnit \div 100)]

TotalsAreSums(r) ==
    /\ r.dev.Total = Norm(r.dev.d024.e + r.dev.d025.e + r.dev.d180.e + r.dev.PF.e,
                          r.dev.d024.f + r.dev.d025.f + r.dev.d180.f + r.dev.PF.f)
    /\ r.desc.Total = Norm(r.desc.IRPF.e + r.desc.CC.e + r.desc.FP.e + r.desc.Sol.e,
                           r.desc.IRPF.f + r.desc.CC.f + r.desc.FP.f + r.desc.Sol.f)
    /\ r.neto = Norm(r.dev.Total.e - r.desc.Total.e, r.dev.Total.f - r.desc.Total.f)

\* C1: in every month that has financials the accrual total is the sum of the
\* lines 024, 025, 180 and PF, the deduction total is the sum of the tax
\* amount and the CC, FP and solidarity contributions, and the net amount is
\* the accrual total minus the deduction total.
C1_TotalsIdentity ==
    \A ym \in DOMAIN financials_by_month : TotalsAreSums(financials_by_month[ym])

\* A month with a hardcoded override and a saved user override has financials
\* with every deduction line positive.
C1_Witness ==
    /\ Ym(2025, 6) \in DOMAIN financials_by_month
    /\ Ym(2025, 6) \in DOMAIN month_configs
    /\ MPositive(financials_by_month[Ym(2025, 6)].desc.Sol)
    /\ MPositive(financials_by_month[Ym(2025, 6)].desc.IRPF)
    /\ MPositive(financials_by_month[Ym(2025, 6)].dev.d024)

\* Continuity-of-care hours of the events as times the rate, in 1/200 euro.
CaUnits(as, cfg) ==
    SumSeq([i \in DOMAIN as |-> ACT_MODELS[as[i].type].ca * cfg.rates.ca])

CaIsFlat(month_acts, r) ==
    /\ r.dev.d180 = MFrac(CaUnits(month_acts, r.cfg), 200)
    /\ \A F \in FlipSets(month_acts) :
          Accruals(FlipSpecial(month_acts, F), r.cfg).d180 = r.dev.d180

\* C2: the line 180 of a month is the sum over the month's events of their
\* continuity-of-care hours times the rate, and it is the same for every
\* event list that differs from the month's only in special flags.
C2_CaNeverDoubled ==
    \A ym \in DOMAIN financials_by_month :
        CaIsFlat(MonthActs(acts, ym), financials_by_month[ym])

\* December holds a special event with continuity-of-care hours.
C2_Witness ==
    /\ Ym(2025, 12) \in DOMAIN financials_by_month
    /\ \E i \in DOMAIN acts :
          /\ acts[i].special
          /\ Prefix(acts[i].date, 7) = Ym(2025, 12)
          /\ ACT_MODELS[acts[i].type].ca > 0

\* Line 024 of the events as in 1/2000 euro and line 025 in 1/200 euro.
Units024(as, cfg) ==
    SumSeq([i \in DOMAIN as |->
              (ACT_MODELS[as[i].type].labor * cfg.rates.labor * 10
               + ACT_MODELS[as[i].type].loca * cfg.rates.labor * cfg.rates.locaFactor)
              * (IF as[i].special THEN 2 ELSE 1)])

Units025(as, cfg) ==
    SumSeq([i \in DOMAIN as |->
              ACT_MODELS[as[i].type].fest * cfg.rates.fest
              * (IF as[i].special THEN 2 ELSE 1)])

AccrualsAsStated(month_acts, r) ==
    /\ r.dev.d024 = MFrac(Units024(month_acts, r.cfg), 2000)
    /\ r.dev.d025 = MFrac(Units025(month_acts, r.cfg), 200)
    /\ r.dev.PF = MCents(r.cfg.prodFija)

\* The session holds one special G_24_MIX event on 2025-10-07 and the default
\* configuration.
OneSpecialMixEvent ==
    /\ Len(acts) = 1
    /\ acts[1].date = FmtDate(2025, 10, 7)
    /\ acts[1].type = "G_24_MIX"
    /\ acts[1].special
    /\ month_configs = EmptyDict
    /\ global_irpf = 70

\* C3: line 024 of a month is the sum over its events of (labor hours x labor
\* rate + localized hours x labor rate x localized factor) x factor, line 025
\* the sum of festive hours x festive rate x factor, factor 2 for a special
\* event and 1 otherwise, and PF is the configured fixed production once;
\* one special G_24_MIX event on 2025-10-07 under the default configuration
\* gives 433.12, 943.04, 235.55, 733.42 and the total 2345.13.
C3_AccrualLines ==
    /\ \A ym \in DOMAIN financials_by_month :
          AccrualsAsStated(MonthActs(acts, ym), financials_by_month[ym])
    /\ (OneSpecialMixEvent /\ run_status = "ok") =>
          financials_by_month[Ym(2025, 10)].dev =
              [ d024 |-> Euros(433, 12), d025 |-> Euros(943, 4), d180 |-> Euros(235, 55),
                PF |-> Euros(733, 42), Total |-> Euros(2345, 13) ]

\* The example's session, reached by deleting everything and adding the event.
C3_Witness ==
    /\ OneSpecialMixEvent
    /\ run_status = "ok"
    /\ DOMAIN financials_by_month = {Ym(2025, 10)}

UserHas(ym, k) == ym \in DOMAIN month_configs /\ k \in DOMAIN month_configs[ym]

Layered(ym, cfg) ==
    /\ cfg.irpf = IF UserHas(ym, "irpf") THEN month_configs[ym]["irpf"]
                  ELSE global_irpf * 5
    /\ cfg.prodFija = IF UserHas(ym, "prodFija") THEN month_configs[ym]["prodFija"]
                      ELSE DEFAULT_CONFIG_TEMPLATE.prodFija
    /\ cfg.bases.ccBaseWorker = IF ym = Ym(2025, 6) THEN 209815
                                ELSE DEFAULT_CONFIG_TEMPLATE.bases.ccBaseWorker
    /\ ListContent(cfg.bases.solidarity, monthly_overrides) =
          IF ym \in DOMAIN OverrideLists0 THEN OverrideLists0[ym]
          ELSE DEFAULT_CONFIG_TEMPLATE.bases.solidarity
    /\ cfg.rates = DEFAULT_CONFIG_TEMPLATE.rates
    /\ cfg.bases.ccRate = DEFAULT_CONFIG_TEMPLATE.bases.ccRate
    /\ cfg.bases.fpRate = DEFAULT_CONFIG_TEMPLATE.bases.fpRate

\* C4: the configuration a month is computed with has the user's monthly tax
\* rate and fixed production where the user saved them, else the global tax
\* rate and the default fixed production; the hardcoded ccBaseWorker and
\* solidarity tranches where the month has a hardcoded override, else the
\* defaults; and the default value in every other field.
C4_Layering ==
    \A ym \in DOMAIN financials_by_month : Layered(ym, financials_by_month[ym].cfg)

\* June 2025 has a hardcoded override and a saved user override whose tax
\* rate differs from the global one.
C4_Witness ==
    /\ Ym(2025, 6) \in DOMAIN financials_by_month
    /\ UserHas(Ym(2025, 6), "irpf")
    /\ month_configs[Ym(2025, 6)]["irpf"] # global_irpf * 5
    /\ financials_by_month[Ym(2025, 6)].cfg.irpf = month_configs[Ym(2025, 6)]["irpf"]
    /\ financials_by_month[Ym(2025, 6)].cfg.bases.ccBaseWorker = 209815

\* C5: whatever a caller writes into the configurations it was handed, the
\* hardcoded override table keeps its literal content, and so does the
\* solidarity list of every configuration the resolver returns.
C5_IndependentCopy ==
    /\ monthly_overrides = OverrideLists0
    /\ \A ym \in CallerMonths :
          ListContent(GetMonthConfig(ym, global_irpf, month_configs).bases.solidarity,
                      monthly_overrides)
          = ListContent(GetMonthConfig(ym, global_irpf, month_configs).bases.solidarity,
                        OverrideLists0)

\* The calendar month after the service month sm, written year-month.
FollowingMonth(sm) ==
    IF ParseInt(SplitOn(sm, "-")[2]) = 12
    THEN IntToStr(ParseInt(SplitOn(sm, "-")[1]) + 1) \o <<"-", "0", "1">>
    ELSE IntToStr(ParseInt(SplitOn(sm, "-")[1])) \o <<"-">>
         \o Pad2(ParseInt(SplitOn(sm, "-")[2]) + 1)

\* The service months paid in pm.
PaidIn(pm) == {sm \in DOMAIN financials_by_month : FollowingMonth(sm) = pm}

NetSum(S) ==
    Norm(SumSet(S, [sm \in S |-> financials_by_month[sm].neto.e]),
         SumSet(S, [sm \in S |-> financials_by_month[sm].neto.f]))

\* C6: after a run that reached the payment tab, the payment months are the
\* months that follow the service months (December of y is followed by
\* January of y+1), and every payment month has the sum of the net amounts
\* of the service months it follows as its complementary amount and exactly
\* those months, each once, in its 'from' list.
C6_PaymentProjection ==
    run_status = "ok" =>
        /\ DOMAIN payments = {FollowingMonth(sm) : sm \in DOMAIN financials_by_month}
        /\ \A pm \in DOMAIN payments :
              /\ Range(payments[pm].from) = PaidIn(pm)
              /\ Len(payments[pm].from) = Cardinality(PaidIn(pm))
              /\ payments[pm].comp = NetSum(PaidIn(pm))

\* Two service months are paid together in February 2025, and December 2025
\* is paid in January 2026.
C6_Witness ==
    /\ run_status = "ok"
    /\ Ym(2025, 2) \in DOMAIN payments
    /\ Len(payments[Ym(2025, 2)].from) = 2
    /\ payments[Ym(2025, 2)].from[1] # payments[Ym(2025, 2)].from[2]
    /\ Ym(2025, 12) \in DOMAIN financials_by_month
    /\ Ym(2026, 1) \in DOMAIN payments

\* The pieces of the text that are day numbers of the month, in order.
ValidDayTexts(y, m, q_days) ==
    SelectSeqIdx(DaysList(q_days),
                 {i \in DOMAIN DaysList(q_days) :
                     /\ Len(StripZeros(DaysList(q_days)[i])) <= 2
                     /\ ParseInt(DaysList(q_days)[i]) \in 1..DaysInMonth(y, m)})

QuickEntryAsStated(before, after, op) ==
    /\ Len(after) = Len(before) + Len(ValidDayTexts(op.y, op.m, op.q_days))
    /\ SubSeq(after, 1, Len(before)) = before
    /\ \A k \in DOMAIN ValidDayTexts(op.y, op.m, op.q_days) :
          after[Len(before) + k].date =
              FmtDate(op.y, op.m, ParseInt(ValidDayTexts(op.y, op.m, op.q_days)[k]))
    /\ op.reported
    /\ op.count = Len(ValidDayTexts(op.y, op.m, op.q_days))

\* C7: a quick entry leaves the events it found unchanged, appends one event
\* for every listed day that is a day of the month, in order, passing over
\* every other listed day, and reports the number of events it appended.
C7_QuickEntrySkipsInvalid ==
    [][last_op'.op = "add_auto" => QuickEntryAsStated(acts, acts', last_op')]_vars

\* The same entries, in any order.
SameEntries(a, b) == Len(a) = Len(b) /\ Range(a) = Range(b)

\* C8: when the user has loaded the file downloaded before, the session
\* holds the events, the per-month overrides, the normal-payroll overrides
\* and the global tax rate the file was exported from.
C8_RoundTrip ==
    (last_op.op = "load" /\ last_op.which = "own") =>
        /\ SameEntries(acts, download[1].exported.acts)
        /\ month_configs = download[1].exported.month_configs
        /\ normal_overrides = download[1].exported.normal_overrides
        /\ global_irpf = download[1].exported.global_irpf

\* The hours of the events as, summed by category from the registry.
HoursOf(as) ==
    [ labor |-> SumSeq([i \in DOMAIN as |-> ACT_MODELS[as[i].type].labor]),
      fest  |-> SumSeq([i \in DOMAIN as |-> ACT_MODELS[as[i].type].fest]),
      ca    |-> SumSeq([i \in DOMAIN as |-> ACT_MODELS[as[i].type].ca]),
      loca  |-> SumSeq([i \in DOMAIN as |-> ACT_MODELS[as[i].type].loca]) ]

SameHours(agg) ==
    \A ym \in DOMAIN financials_by_month : agg[ym].hours = financials_by_month[ym].hours

\* C9: the four hour sums of a month are the sums, over the events whose date
\* has the month's prefix, of the registry's hours of the event's type, and
\* they are the same for every event list that differs only in special flags.
C9_HourSums ==
    /\ \A ym \in DOMAIN financials_by_month :
          financials_by_month[ym].hours = HoursOf(MonthActs(acts, ym))
    /\ run_status = "ok" =>
          \A F \in FlipSets(acts) : SameHours(Aggregate(FlipSpecial(acts, F)).agg)

\* October holds a special event the user added beside events that are not
\* special.
C9_Witness ==
    /\ run_status = "ok"
    /\ \E i \in DOMAIN acts, j \in DOMAIN acts :
          /\ acts[i].special /\ ~acts[j].special
          /\ acts[i].id = NextUuid(0)
          /\ Prefix(acts[i].date, 7) = Ym(2025, 10)
          /\ Prefix(acts[j].date, 7) = Ym(2025, 10)
          /\ financials_by_month[Ym(2025, 10)].hours.fest > 0

HasUnknownType(as) == \E i \in DOMAIN as : as[i].type \notin DOMAIN ACT_MODELS

\* C10: while the event list holds an event of a type the registry does not
\* have, the run ends in the aggregation with KeyError and produces neither
\* financials nor payments.
C10_UnknownTypeFails ==
    HasUnknownType(acts) =>
        /\ run_status = "KeyError"
        /\ financials_by_month = EmptyDict
        /\ payments = EmptyDict

\* A backup with an event of an unregistered type has been loaded.
C10_Witness ==
    /\ last_op.op = "load"
    /\ HasUnknownType(acts)
    /\ run_status = "KeyError"


\* The year-month prefixes of the events in the collection.
EventMonths == {Prefix(acts[i].date, 7) : i \in DOMAIN acts}

====
